---- MODULE Spec2Model ----
(***************************************************************************)
(* Graph-search planners of python_motion_planning on a 3D grid:           *)
(* JPS.plan (jps.py) and ThetaStar.plan (theta_star.py).                   *)
(*                                                                         *)
(* One behaviour is one planner object: it is constructed on an            *)
(* environment (boundary walls, obstacles installed with env.update, and   *)
(* env.inner_obstacles), and plan() is called on it MaxCalls times.  One   *)
(* step of the model is one iteration of the `while OPEN` loop, or the     *)
(* return after the loop, or the next call of plan().                      *)
(* lineOfSight, jump and detectForceNeighbor are also looked at alone,     *)
(* each called once on arguments of its own (SpecLOS, SpecJump,            *)
(* SpecForce).                                                             *)
(*                                                                         *)
(* Costs are Python floats in the source.  They are modelled in fixed      *)
(* point: a distance is floor(Scale * sqrt(d2)).                           *)
(*                                                                         *)
(* Node, Grid and the AStar base class (constructor, getNeighbor,          *)
(* extractPath, h, dist) are not among the source files; they are          *)
(* modelled from the specification text.                                   *)
(***************************************************************************)
EXTENDS Integers, Sequences, FiniteSets, TLC

\* ---------------------------------------------------------------- bounds
XRange == 5
YRange == 5
ZRange == 4
MaxObstacles == 1
StartSpan == 2
RecursionLimit == 14
MaxCalls == 2
Scale == 1000

VARIABLES
    algo,             \* "JPS" or "Theta": the class of the planner object
    env_obstacles,    \* env.obstacles: boundary walls and env.update()d cells
    inner_obstacles,  \* env.inner_obstacles
    start,            \* self.start.current
    goal,             \* self.goal.current
    obstacles,        \* self.obstacles, the set the planner tests against
    OPEN,             \* the OPEN heap of the running plan() call
    CLOSED,           \* the CLOSED dict of the running call, insertion order
    pc,               \* "loop": inside `while OPEN`; "done": plan() returned
    outcome,          \* "none", "found" (goal popped), "exhausted"
    result,           \* the (cost, path, expand) tuple plan() returned
    call,             \* number of the running / last plan() call
    result1,          \* what the first call returned
    los,              \* arguments and answer of a lineOfSight call
    jmp,              \* arguments and answer of a jump or detectForceNeighbor call
    expansions        \* how often the running call has generated successors

vars == <<algo, env_obstacles, inner_obstacles, start, goal, obstacles,
          OPEN, CLOSED, pc, outcome, result, call, result1, los, jmp,
          expansions>>

\* ---------------------------------------------------------------- grid
\* Body applied to the value of e, which is computed once
Let(e, Body(_)) == CHOOSE r \in {Body(v) : v \in {e}} : TRUE

Abs(a) == IF a >= 0 THEN a ELSE -a

\* every cell of the lattice [0, x_range) x [0, y_range) x [0, z_range)
Cells == (0..(XRange-1)) \X (0..(YRange-1)) \X (0..(ZRange-1))

\* Grid.init: the lattice walls
Boundary ==
    {c \in Cells : \/ c[1] = 0 \/ c[1] = XRange - 1
                   \/ c[2] = 0 \/ c[2] = YRange - 1
                   \/ c[3] = 0 \/ c[3] = ZRange - 1}

Interior == Cells \ Boundary

\* the cells a start position is drawn from: the interior cells within
\* StartSpan cells of the lattice origin
StartCells ==
    {c \in Interior : c[1] <= StartSpan /\ c[2] <= StartSpan /\ c[3] <= StartSpan}

InBounds(c) ==
    /\ c[1] >= 0 /\ c[1] < XRange
    /\ c[2] >= 0 /\ c[2] < YRange
    /\ c[3] >= 0 /\ c[3] < ZRange

\* the 26 non-zero offsets of {-1,0,1}^3, in lexicographic order
Motions ==
    [j \in 1..26 |->
        LET i == IF j <= 13 THEN j - 1 ELSE j
        IN  <<(i \div 9) - 1, ((i \div 3) % 3) - 1, (i % 3) - 1>>]

MotionSet == {Motions[j] : j \in 1..26}

AddPos(c, m) == <<c[1] + m[1], c[2] + m[2], c[3] + m[3]>>

\* ---------------------------------------------------------------- costs
D2(a, b) ==
    (a[1]-b[1])*(a[1]-b[1]) + (a[2]-b[2])*(a[2]-b[2]) + (a[3]-b[3])*(a[3]-b[3])

\* the largest k in lo..hi with k * k <= n, by bisection
RECURSIVE ISqrt(_, _, _)
ISqrt(n, lo, hi) ==
    IF lo >= hi THEN lo
    ELSE LET mid == (lo + hi + 1) \div 2
         IN  IF mid * mid <= n THEN ISqrt(n, mid, hi) ELSE ISqrt(n, lo, mid - 1)

\* the largest coordinate difference between two cells of the lattice, and
\* the largest one a distance is asked for: a jump can carry a cell out of it
LatticeDelta == XRange + YRange + ZRange
MaxDelta == LatticeDelta + RecursionLimit

\* floor(Scale * sqrt(n)) for the squared distances of the lattice
SqrtTab ==
    [n \in 0..(LatticeDelta * LatticeDelta) |-> ISqrt(n * Scale * Scale, 0, 2 * Scale * MaxDelta)]

\* floor(Scale * sqrt(n)) for a squared distance n
Sqrt(n) ==
    IF n \in DOMAIN SqrtTab THEN SqrtTab[n] ELSE ISqrt(n * Scale * Scale, 0, 2 * Scale * MaxDelta)

\* GraphSearcher.dist / the euclidean heuristic h
Dist(a, b) == Sqrt(D2(a, b))

\* step cost of a motion: its Euclidean length
MotionCost(m) == Sqrt(m[1]*m[1] + m[2]*m[2] + m[3]*m[3])

\* ---------------------------------------------------------------- nodes
Node(c, p, g, h) == [current |-> c, parent |-> p, g |-> g, h |-> h]

\* what a Python call gives back when it returns None
None == [current |-> <<-1, -1, -1>>, parent |-> <<-1, -1, -1>>, g |-> -1, h |-> -1]

\* what a Python call gives back when it does not return: it raised
\* RecursionError, the call stack being RecursionLimit frames deep
Raised == [current |-> <<-1, -1, -1>>, parent |-> <<-1, -1, -1>>, g |-> -2, h |-> -2]

\* self.start as the constructor builds it
StartNode == Node(start, start, 0, 0)

\* Node.__lt__: by g + h; ties go to the entry pushed first (see HeapPop)
NodeLt(a, b) == a.g + a.h < b.g + b.h

\* ---------------------------------------------------------------- OPEN, CLOSED
\* heapq.heappush(OPEN, n); the list keeps the order of insertion
HeapPush(open, n) == Append(open, n)

\* index of the entry heapq.heappop returns: the least by NodeLt, the one
\* pushed first among equals
HeapMin(open) ==
    CHOOSE i \in 1..Len(open) :
        /\ \A j \in 1..Len(open) : ~NodeLt(open[j], open[i])
        /\ \A j \in 1..(i-1) : NodeLt(open[i], open[j])

\* the least entry is read but stays in the list
HeapPop_keep(open) == open

\* the OPEN list after heapq.heappop
HeapPop(open) ==
    Let(HeapMin(open), LAMBDA i :
        [k \in 1..(Len(open) - 1) |-> IF k < i THEN open[k] ELSE open[k + 1]])

\* the membership test answers False for every position
InClosed_never(closed, pos) == FALSE

\* `pos in CLOSED`
InClosed(closed, pos) == \E i \in 1..Len(closed) : closed[i].current = pos

\* CLOSED.get(pos): the node, or None
ClosedGet(closed, pos) ==
    IF InClosed(closed, pos)
    THEN closed[CHOOSE i \in 1..Len(closed) : closed[i].current = pos]
    ELSE None

\* the dict hands out its values newest first
ClosedPut_front(closed, n) == <<n>> \o closed

\* CLOSED[n.current] = n on an insertion-ordered dict: a new key is appended,
\* an existing key keeps its place and gets the new value
ClosedPut(closed, n) ==
    IF InClosed(closed, n.current)
    THEN [i \in 1..Len(closed) |->
             IF closed[i].current = n.current THEN n ELSE closed[i]]
    ELSE Append(closed, n)

\* the goal test misses the start node
IsGoal_notStart(n) == n.current = goal /\ n.current # start

\* `node == self.goal`: Node equality is by position only
IsGoal(n) == n.current = goal

\* ---------------------------------------------------------------- JPS
\* the offset of s cells along axis a
Unit(a, s) == <<IF a = 1 THEN s ELSE 0, IF a = 2 THEN s ELSE 0, IF a = 3 THEN s ELSE 0>>

\* the axes motion m moves along
Moving(m) == {a \in 1..3 : m[a] # 0}

\* the test stops at the obstacle beside the cell: the cell behind it is
\* not looked at
DetectForceNeighbor_blocked(c, m) ==
    IF Cardinality(Moving(m)) = 1
    THEN \E a \in (1..3) \ Moving(m), s \in {-1, 1} : AddPos(c, Unit(a, s)) \in obstacles
    ELSE \E a \in Moving(m) : AddPos(c, Unit(a, -m[a])) \in obstacles

\* JPS.detectForceNeighbor(node, motion), node at cell c
DetectForceNeighbor(c, m) ==
    LET x == c[1]  y == c[2]  z == c[3]
        x_dir == m[1]  y_dir == m[2]  z_dir == m[3]
    IN  IF x_dir # 0 /\ y_dir = 0 /\ z_dir = 0 THEN
            \/ \E dy \in {-1, 1} : /\ <<x, y + dy, z>> \in obstacles
                                   /\ <<x + x_dir, y + dy, z>> \notin obstacles
            \/ \E dz \in {-1, 1} : /\ <<x, y, z + dz>> \in obstacles
                                   /\ <<x + x_dir, y, z + dz>> \notin obstacles
        ELSE IF x_dir = 0 /\ y_dir # 0 /\ z_dir = 0 THEN
            \/ \E dx \in {-1, 1} : /\ <<x + dx, y, z>> \in obstacles
                                   /\ <<x + dx, y + y_dir, z>> \notin obstacles
            \/ \E dz \in {-1, 1} : /\ <<x, y, z + dz>> \in obstacles
                                   /\ <<x, y + y_dir, z + dz>> \notin obstacles
        ELSE IF x_dir = 0 /\ y_dir = 0 /\ z_dir # 0 THEN
            \/ \E dx \in {-1, 1} : /\ <<x + dx, y, z>> \in obstacles
                                   /\ <<x + dx, y, z + z_dir>> \notin obstacles
            \/ \E dy \in {-1, 1} : /\ <<x, y + dy, z>> \in obstacles
                                   /\ <<x, y + dy, z + z_dir>> \notin obstacles
        ELSE IF x_dir # 0 /\ y_dir # 0 /\ z_dir = 0 THEN
            \/ /\ <<x - x_dir, y, z>> \in obstacles
               /\ <<x - x_dir, y + y_dir, z>> \notin obstacles
            \/ /\ <<x, y - y_dir, z>> \in obstacles
               /\ <<x + x_dir, y - y_dir, z>> \notin obstacles
        ELSE IF x_dir # 0 /\ y_dir = 0 /\ z_dir # 0 THEN
            \/ /\ <<x - x_dir, y, z>> \in obstacles
               /\ <<x - x_dir, y, z + z_dir>> \notin obstacles
            \/ /\ <<x, y, z - z_dir>> \in obstacles
               /\ <<x + x_dir, y, z - z_dir>> \notin obstacles
        ELSE IF x_dir = 0 /\ y_dir # 0 /\ z_dir # 0 THEN
            \/ /\ <<x, y - y_dir, z>> \in obstacles
               /\ <<x, y - y_dir, z + z_dir>> \notin obstacles
            \/ /\ <<x, y, z - z_dir>> \in obstacles
               /\ <<x, y + y_dir, z - z_dir>> \notin obstacles
        ELSE IF x_dir # 0 /\ y_dir # 0 /\ z_dir # 0 THEN
            \/ /\ <<x - x_dir, y, z>> \in obstacles
               /\ <<x - x_dir, y + y_dir, z + z_dir>> \notin obstacles
            \/ /\ <<x, y - y_dir, z>> \in obstacles
               /\ <<x + x_dir, y - y_dir, z + z_dir>> \notin obstacles
            \/ /\ <<x, y, z - z_dir>> \in obstacles
               /\ <<x + x_dir, y + y_dir, z - z_dir>> \notin obstacles
        ELSE FALSE

\* the stepped cell is tested against the lattice walls only
HitObstacle_walls(c) == c \in Boundary

\* line 102 of JPS.jump: the stepped cell hits an obstacle
HitObstacle(c) == c \in obstacles

\* lines 110-140 of JPS.jump: the sub-directions a diagonal motion probes
\* from the stepped cell, in the order of the `or`
SubDirections(m) ==
    IF m[1] # 0 /\ m[2] # 0 /\ m[3] = 0 THEN <<<<m[1], 0, 0>>, <<0, m[2], 0>>>>
    ELSE IF m[1] # 0 /\ m[2] = 0 /\ m[3] # 0 THEN <<<<m[1], 0, 0>>, <<0, 0, m[3]>>>>
    ELSE IF m[1] = 0 /\ m[2] # 0 /\ m[3] # 0 THEN <<<<0, m[2], 0>>, <<0, 0, m[3]>>>>
    ELSE IF m[1] # 0 /\ m[2] # 0 /\ m[3] # 0
         THEN <<<<m[1], m[2], 0>>, <<m[1], 0, m[3]>>, <<0, m[2], m[3]>>>>
    ELSE <<>>

RECURSIVE JumpAt(_, _, _, _)
RECURSIVE SubFound(_, _, _, _)

\* `self.jump(new_node, d1) or self.jump(new_node, d2) ...` for the
\* sub-directions ds from the i-th on: "found" when one returns a jump
\* point, "raised" when one raises before that, "none" otherwise
SubFound(new_node, ds, i, depth) ==
    IF i > Len(ds) THEN "none"
    ELSE Let(JumpAt(new_node, ds[i], Scale, depth + 1), LAMBDA r :
             IF r = Raised THEN "raised"
             ELSE IF r # None THEN "found"
             ELSE SubFound(new_node, ds, i + 1, depth))

\* JPS.jump(node, motion) called with depth - 1 jump frames on the stack:
\* the jump point, None, or Raised.  motion is motion.current and mg is
\* motion.g (the Euclidean length for a motion of env.motions, 1 for the
\* sub-directions jump builds itself).
JumpAt(node, motion, mg, depth) ==
    IF depth > RecursionLimit THEN Raised
    ELSE Let([m |-> motion,
              n |-> Node(AddPos(node.current, motion), node.current, node.g + mg,
                         Dist(AddPos(node.current, motion), goal))],
             LAMBDA b :
                 IF HitObstacle(b.n.current) THEN None
                 ELSE IF IsGoal(b.n) THEN b.n
                 ELSE Let(SubFound(b.n, SubDirections(b.m), 1, depth), LAMBDA sub :
                          IF sub = "raised" THEN Raised
                          ELSE IF sub = "found" THEN b.n
                          ELSE IF DetectForceNeighbor(b.n.current, b.m) THEN b.n
                          ELSE JumpAt(b.n, b.m, mg, depth + 1)))

\* JPS.jump(node, motion) as plan() calls it: the jump point, or None
Jump(node, motion, mg) == JumpAt(node, motion, mg, 1)

\* lines 65-72 of JPS.plan: the jump points of the 26 motions, in motion
\* order, that exist and are not closed, with parent and h set
JpList(node, closed) ==
    Let([j \in 1..26 |-> Jump(node, Motions[j], MotionCost(Motions[j]))],
        LAMBDA jumps :
            Let(SelectSeq(jumps, LAMBDA jp : jp # None /\ ~InClosed(closed, jp.current)),
                LAMBDA found :
                    [i \in 1..Len(found) |->
                        Node(found[i].current, node.current, found[i].g,
                             Dist(found[i].current, goal))]))

\* lines 74-80 of JPS.plan: push the jump points, stop after pushing the goal
RECURSIVE PushJps(_, _, _)
PushJps(open, jps, i) ==
    IF i > Len(jps) THEN open
    ELSE IF IsGoal(jps[i]) THEN HeapPush(open, jps[i])
    ELSE PushJps(HeapPush(open, jps[i]), jps, i + 1)

\* ---------------------------------------------------------------- Theta*
\* AStar.isCollision(node1, node2) for a single motion m from cell c: either
\* end is an obstacle, or a diagonal move cuts the corner formed by the two
\* orthogonal neighbours, in any of the coordinate planes the motion spans
IsCollision(c, m) ==
    LET n == AddPos(c, m)
        ax(i) == [k \in 1..3 |-> IF k = i THEN c[k] + m[k] ELSE c[k]]
    IN  \/ c \in obstacles
        \/ n \in obstacles
        \/ \E i, j \in 1..3 : /\ i < j /\ m[i] # 0 /\ m[j] # 0
                              /\ ax(i) \in obstacles /\ ax(j) \in obstacles

\* AStar.getNeighbor(node): node + motion for every motion of env.motions that
\* does not collide, in motion order; g = node.g + the motion's cost
RECURSIVE GetNeighbor(_, _)
GetNeighbor(node, j) ==
    IF j > 26 THEN <<>>
    ELSE Let(Motions[j], LAMBDA m :
             IF IsCollision(node.current, m) THEN GetNeighbor(node, j + 1)
             ELSE <<Node(AddPos(node.current, m), node.parent,
                         node.g + MotionCost(m), node.h)>> \o GetNeighbor(node, j + 1))

\* the pass advances x only: the minor axes never move
StepX_flat(s, d) ==
    [x |-> s.x + d.sx, y |-> s.y, z |-> s.z,
     p1 |-> s.p1 + 2 * d.dy, p2 |-> s.p2 + 2 * d.dz]

\* one pass through the body of the `while x != x2` loop (lines 186-194):
\* s holds x, y, z, p1, p2 before the pass, the result holds them after it
StepX(s, d) ==
    [x |-> s.x + d.sx,
     y |-> IF s.p1 >= 0 THEN s.y + d.sy ELSE s.y,
     z |-> IF s.p2 >= 0 THEN s.z + d.sz ELSE s.z,
     p1 |-> (IF s.p1 >= 0 THEN s.p1 - 2 * d.dx ELSE s.p1) + 2 * d.dy,
     p2 |-> (IF s.p2 >= 0 THEN s.p2 - 2 * d.dx ELSE s.p2) + 2 * d.dz]

\* one pass through the body of the `while y != y2` loop (lines 202-210)
StepY(s, d) ==
    [x |-> IF s.p1 >= 0 THEN s.x + d.sx ELSE s.x,
     y |-> s.y + d.sy,
     z |-> IF s.p2 >= 0 THEN s.z + d.sz ELSE s.z,
     p1 |-> (IF s.p1 >= 0 THEN s.p1 - 2 * d.dy ELSE s.p1) + 2 * d.dx,
     p2 |-> (IF s.p2 >= 0 THEN s.p2 - 2 * d.dy ELSE s.p2) + 2 * d.dz]

\* one pass through the body of the `while z != z2` loop (lines 218-226)
StepZ(s, d) ==
    [x |-> IF s.p1 >= 0 THEN s.x + d.sx ELSE s.x,
     y |-> IF s.p2 >= 0 THEN s.y + d.sy ELSE s.y,
     z |-> s.z + d.sz,
     p1 |-> (IF s.p1 >= 0 THEN s.p1 - 2 * d.dz ELSE s.p1) + 2 * d.dx,
     p2 |-> (IF s.p2 >= 0 THEN s.p2 - 2 * d.dz ELSE s.p2) + 2 * d.dy]

\* the `while x != x2` loop of the X-dominant branch
RECURSIVE WalkX(_, _, _)
WalkX(s, d, obs) ==
    IF s.x = d.x2 THEN TRUE
    ELSE \E t \in {StepX(s, d)} :
             /\ <<t.x, t.y, t.z>> \notin obs
             /\ WalkX(t, d, obs)

\* the `while y != y2` loop of the Y-dominant branch
RECURSIVE WalkY(_, _, _)
WalkY(s, d, obs) ==
    IF s.y = d.y2 THEN TRUE
    ELSE \E t \in {StepY(s, d)} :
             /\ <<t.x, t.y, t.z>> \notin obs
             /\ WalkY(t, d, obs)

\* the `while z != z2` loop of the Z-dominant branch
RECURSIVE WalkZ(_, _, _)
WalkZ(s, d, obs) ==
    IF s.z = d.z2 THEN TRUE
    ELSE \E t \in {StepZ(s, d)} :
             /\ <<t.x, t.y, t.z>> \notin obs
             /\ WalkZ(t, d, obs)

\* ThetaStar.lineOfSight(node1, node2) for node1 at c1 and node2 at c2, where
\* obs is self.obstacles after line 154 has rebound it.  The block after the
\* three branches (lines 230-239) computes values it never uses.
LineOfSight(c1, c2, obs) ==
    IF c1 \in obs \/ c2 \in obs THEN FALSE
    ELSE IF ~InBounds(c1) THEN FALSE
    ELSE IF ~InBounds(c2) THEN FALSE
    ELSE \E d \in {[x2 |-> c2[1], y2 |-> c2[2], z2 |-> c2[3],
                     sx |-> IF c2[1] > c1[1] THEN 1 ELSE -1,
                     sy |-> IF c2[2] > c1[2] THEN 1 ELSE -1,
                     sz |-> IF c2[3] > c1[3] THEN 1 ELSE -1,
                     dx |-> Abs(c2[1] - c1[1]),
                     dy |-> Abs(c2[2] - c1[2]),
                     dz |-> Abs(c2[3] - c1[3])]} :
             IF d.dx >= d.dy /\ d.dx >= d.dz THEN
                 WalkX([x |-> c1[1], y |-> c1[2], z |-> c1[3],
                        p1 |-> 2 * d.dy - d.dx, p2 |-> 2 * d.dz - d.dx], d, obs)
             ELSE IF d.dy >= d.dx /\ d.dy >= d.dz THEN
                 WalkY([x |-> c1[1], y |-> c1[2], z |-> c1[3],
                        p1 |-> 2 * d.dx - d.dy, p2 |-> 2 * d.dz - d.dy], d, obs)
             ELSE
                 WalkZ([x |-> c1[1], y |-> c1[2], z |-> c1[3],
                        p1 |-> 2 * d.dx - d.dz, p2 |-> 2 * d.dy - d.dz], d, obs)

\* the cells the loop of the X-dominant branch steps onto, in order, when no
\* obstacle ends it
RECURSIVE TraceX(_, _)
TraceX(s, d) ==
    IF s.x = d.x2 THEN <<>>
    ELSE Let(StepX(s, d), LAMBDA t : <<<<t.x, t.y, t.z>>>> \o TraceX(t, d))

RECURSIVE TraceY(_, _)
TraceY(s, d) ==
    IF s.y = d.y2 THEN <<>>
    ELSE Let(StepY(s, d), LAMBDA t : <<<<t.x, t.y, t.z>>>> \o TraceY(t, d))

RECURSIVE TraceZ(_, _)
TraceZ(s, d) ==
    IF s.z = d.z2 THEN <<>>
    ELSE Let(StepZ(s, d), LAMBDA t : <<<<t.x, t.y, t.z>>>> \o TraceZ(t, d))

\* the traversal of lineOfSight from c1 to c2 (lines 170-228) on a grid
\* without obstacles: every cell it steps onto, in order
LosTrace(c1, c2) ==
    Let([x2 |-> c2[1], y2 |-> c2[2], z2 |-> c2[3],
         sx |-> IF c2[1] > c1[1] THEN 1 ELSE -1,
         sy |-> IF c2[2] > c1[2] THEN 1 ELSE -1,
         sz |-> IF c2[3] > c1[3] THEN 1 ELSE -1,
         dx |-> Abs(c2[1] - c1[1]),
         dy |-> Abs(c2[2] - c1[2]),
         dz |-> Abs(c2[3] - c1[3])],
        LAMBDA d :
            IF d.dx >= d.dy /\ d.dx >= d.dz THEN
                TraceX([x |-> c1[1], y |-> c1[2], z |-> c1[3],
                        p1 |-> 2 * d.dy - d.dx, p2 |-> 2 * d.dz - d.dx], d)
            ELSE IF d.dy >= d.dx /\ d.dy >= d.dz THEN
                TraceY([x |-> c1[1], y |-> c1[2], z |-> c1[3],
                        p1 |-> 2 * d.dx - d.dy, p2 |-> 2 * d.dz - d.dy], d)
            ELSE
                TraceZ([x |-> c1[1], y |-> c1[2], z |-> c1[3],
                        p1 |-> 2 * d.dx - d.dz, p2 |-> 2 * d.dy - d.dz], d))

\* line 154: what self.obstacles is rebound to by a lineOfSight call
UnionObstacles == obstacles \cup inner_obstacles

\* updateVertex without the lineOfSight test of line 135
UpdateVertex_noSight(node_p, node_c) ==
    IF node_p.g + Dist(node_c.current, node_p.current) <= node_c.g
    THEN Node(node_c.current, node_p.current,
              node_p.g + Dist(node_c.current, node_p.current), node_c.h)
    ELSE node_c

\* ThetaStar.updateVertex(node_p, node_c): node_c afterwards
UpdateVertex(node_p, node_c) ==
    IF /\ LineOfSight(node_c.current, node_p.current, UnionObstacles)
       /\ node_p.g + Dist(node_c.current, node_p.current) <= node_c.g
    THEN Node(node_c.current, node_p.current,
              node_p.g + Dist(node_c.current, node_p.current), node_c.h)
    ELSE node_c

\* lines 78-86 of ThetaStar.plan: the successor node_n of node as it is pushed
Successor(node, node_n, closed) ==
    Let(Node(node_n.current, node.current,
             node.g + Dist(node.current, node_n.current),
             Dist(node_n.current, goal)),
        LAMBDA n1 :
            Let(ClosedGet(closed, node.parent), LAMBDA node_p :
                IF node_p # None THEN UpdateVertex(node_p, n1) ELSE n1))

\* lines 73-94 of ThetaStar.plan: the for loop over the neighbours; gives
\* the OPEN list afterwards and whether lineOfSight was called
RECURSIVE ThetaLoop(_, _, _, _, _, _)
ThetaLoop(node, nbrs, i, closed, open, called) ==
    IF i > Len(nbrs) THEN [open |-> open, called |-> called]
    ELSE IF InClosed(closed, nbrs[i].current)
         THEN ThetaLoop(node, nbrs, i + 1, closed, open, called)
    ELSE Let(Successor(node, nbrs[i], closed), LAMBDA n :
             IF IsGoal(n)
             THEN [open |-> HeapPush(open, n),
                   called |-> called \/ InClosed(closed, node.parent)]
             ELSE ThetaLoop(node, nbrs, i + 1, closed, HeapPush(open, n),
                            called \/ InClosed(closed, node.parent)))

\* the while loop of ThetaStar.extractPath, from node with path and cost so
\* far; path is built goal first.  fuel bounds the walk by the size of CLOSED.
RECURSIVE ExtractWalk(_, _, _, _, _)
ExtractWalk(closed, node, path, cost, fuel) ==
    IF node.current = start \/ fuel = 0 THEN [cost |-> cost, path |-> path]
    ELSE IF InClosed(closed, node.parent)
         THEN Let(ClosedGet(closed, node.parent), LAMBDA node_parent :
                  ExtractWalk(closed, node_parent,
                              Append(path, node_parent.current),
                              cost + Dist(node.current, node_parent.current),
                              fuel - 1))
    ELSE [cost |-> cost, path |-> path]

Reverse(s) == [i \in 1..Len(s) |-> s[Len(s) + 1 - i]]

\* ThetaStar.extractPath(closed_list): (cost, path)
ExtractPath(closed) ==
    Let(ClosedGet(closed, goal), LAMBDA node :
        Let(ExtractWalk(closed, node, <<node.current>>, 0, Len(closed)), LAMBDA w :
            [cost |-> w.cost, path |-> Reverse(w.path)]))

\* AStar.extractPath(closed_list), which JPS inherits: the parent chain from
\* the goal's entry back to start, reversed, and the sum of its distances
AStarExtractPath(closed) ==
    Let(ClosedGet(closed, goal), LAMBDA node :
        Let(ExtractWalk(closed, node, <<node.current>>, 0, Len(closed)), LAMBDA w :
            [cost |-> w.cost, path |-> Reverse(w.path)]))

\* ---------------------------------------------------------------- results
\* a Python value in the cost slot of the returned tuple: a number
\* (val is the number) or a list (val is its length)
PyNumber(n) == [type |-> "number", val |-> n]

PyEmptyList == [type |-> "list", val |-> 0]

\* no jump call is being looked at
NoJump ==
    [node |-> <<1, 1, 1>>, motion |-> <<1, 0, 0>>, asked |-> FALSE, pt |-> None,
     probed |-> FALSE, forced |-> FALSE]

\* no plan() call has returned yet
NoResult == [cost |-> [type |-> "none", val |-> 0], path |-> <<>>, expanded |-> <<>>]

\* `return cost, path, list(CLOSED.values())`
FoundResult(ep, closed) ==
    [cost |-> PyNumber(ep.cost), path |-> ep.path, expanded |-> closed]

\* the not-found return still hands out the closed nodes
NotFoundResult_closed == [cost |-> PyEmptyList, path |-> <<>>, expanded |-> CLOSED]

\* `return [], [], []`
NotFoundResult == [cost |-> PyEmptyList, path |-> <<>>, expanded |-> <<>>]

\* ---------------------------------------------------------------- A*
\* the successors of node that A* pushes: every neighbour of getNeighbor
\* that is not closed, with parent and h set, in motion order
AStarSuccessors(node, closed) ==
    Let(SelectSeq(GetNeighbor(node, 1), LAMBDA n : ~InClosed(closed, n.current)),
        LAMBDA nbrs :
            [i \in 1..Len(nbrs) |->
                Node(nbrs[i].current, node.current, nbrs[i].g,
                     Dist(nbrs[i].current, goal))])

\* the search loop with the A* strategy, run to its end from open and
\* closed: the CLOSED map at the return and whether the goal was popped.
\* Entries of OPEN whose position is closed are dropped when popped, so the
\* node the loop works on next is the least entry whose position is open.
RECURSIVE AStarLoop(_, _)
AStarLoop(open, closed) ==
    Let(SelectSeq(open, LAMBDA n : ~InClosed(closed, n.current)), LAMBDA live :
        IF live = <<>> THEN [found |-> FALSE, closed |-> closed]
        ELSE Let(live[HeapMin(live)], LAMBDA node :
                 IF IsGoal(node)
                 THEN [found |-> TRUE, closed |-> ClosedPut(closed, node)]
                 ELSE AStarLoop(HeapPop(live) \o AStarSuccessors(node, closed),
                                ClosedPut(closed, node))))

\* AStar.plan() on the planner's start, goal and obstacles: what it returns
AStarPlan ==
    Let(AStarLoop(<<StartNode>>, <<>>), LAMBDA r :
        IF r.found THEN FoundResult(AStarExtractPath(r.closed), r.closed)
        ELSE NotFoundResult)

\* ---------------------------------------------------------------- behaviour
\* the sets of at most k interior cells
RECURSIVE CellSets(_)
CellSets(k) ==
    IF k = 0 THEN {{}}
    ELSE CellSets(k - 1) \cup {s \cup {c} : s \in CellSets(k - 1), c \in Interior}

\* the cells a caller installs with env.update (first) and as
\* env.inner_obstacles (second): at most MaxObstacles cells in all
ObstacleChoices ==
    {<<e, t \ e>> : <<t, e>> \in {te \in CellSets(MaxObstacles) \X CellSets(MaxObstacles) :
                                       te[2] \subseteq te[1]}}

\* the planner object after construction and the first two statements of
\* plan(): OPEN holds self.start, CLOSED is empty
Init ==
    /\ algo \in {"JPS", "Theta"}
    /\ \E ei \in ObstacleChoices :
          /\ env_obstacles = Boundary \cup ei[1]
          /\ inner_obstacles = ei[2]
    /\ start \in StartCells
    /\ goal \in Interior
    /\ obstacles = env_obstacles
    /\ OPEN = <<StartNode>>
    /\ CLOSED = <<>>
    /\ pc = "loop"
    /\ outcome = "none"
    /\ result = NoResult
    /\ call = 1
    /\ result1 = NoResult
    /\ los = [p |-> start, q |-> goal, asked |-> FALSE, pq |-> FALSE, qp |-> FALSE]
    /\ jmp = NoJump
    /\ expansions = 0

\* the node heapq.heappop(OPEN) returns
Popped == OPEN[HeapMin(OPEN)]

\* the closed test left out: every popped node is taken as new
AlreadyClosed_never(node) == FALSE

\* `if node.current in CLOSED: continue`
AlreadyClosed(node) == InClosed(CLOSED, node.current)

\* lines 56-57 / 63-64: the popped position is already closed, continue
PopStale ==
    /\ pc = "loop"
    /\ OPEN # <<>>
    /\ \E node \in {Popped} :
           /\ AlreadyClosed(node)
           /\ OPEN' = HeapPop(OPEN)
    /\ UNCHANGED <<algo, env_obstacles, inner_obstacles, start, goal, obstacles,
                   CLOSED, pc, outcome, result, call, result1, los, jmp, expansions>>

\* lines 60-63 / 67-71: the goal is popped, plan() returns the path
PopGoal ==
    /\ pc = "loop"
    /\ OPEN # <<>>
    /\ \E node \in {Popped} :
           /\ ~AlreadyClosed(node)
           /\ IsGoal(node)
           /\ OPEN' = HeapPop(OPEN)
           /\ CLOSED' = ClosedPut(CLOSED, node)
           /\ result' = FoundResult(IF algo = "JPS" THEN AStarExtractPath(CLOSED')
                                                    ELSE ExtractPath(CLOSED'), CLOSED')
           /\ pc' = "done"
           /\ outcome' = "found"
    /\ UNCHANGED <<algo, env_obstacles, inner_obstacles, start, goal, obstacles,
                   call, result1, los, jmp, expansions>>

\* JPS.plan lines 65-82: jump in every direction, push, close the node
ExpandJPS ==
    /\ algo = "JPS"
    /\ pc = "loop"
    /\ OPEN # <<>>
    /\ \E node \in {Popped} :
           /\ ~AlreadyClosed(node)
           /\ ~IsGoal(node)
           /\ \E jps \in {JpList(node, CLOSED)} :
                 OPEN' = PushJps(HeapPop(OPEN), jps, 1)
           /\ CLOSED' = ClosedPut(CLOSED, node)
    /\ expansions' = expansions + 1
    /\ UNCHANGED <<algo, env_obstacles, inner_obstacles, start, goal, obstacles,
                   pc, outcome, result, call, result1, los, jmp>>

\* the expansion without line 96: the expanded node is never closed
ExpandTheta_noClose ==
    /\ algo = "Theta"
    /\ pc = "loop"
    /\ OPEN # <<>>
    /\ \E node \in {Popped} :
           /\ ~AlreadyClosed(node)
           /\ ~IsGoal(node)
           /\ \E nbrs \in {GetNeighbor(node, 1)} :
              \E r \in {ThetaLoop(node, nbrs, 1, CLOSED, HeapPop(OPEN), FALSE)} :
                 /\ OPEN' = r.open
                 /\ obstacles' = IF r.called THEN UnionObstacles ELSE obstacles
    /\ expansions' = expansions + 1
    /\ UNCHANGED <<algo, env_obstacles, inner_obstacles, start, goal, CLOSED,
                   pc, outcome, result, call, result1, los, jmp>>

\* ThetaStar.plan lines 73-96: the neighbours, each with its parent
\* promotion, are pushed and the node is closed; the first lineOfSight call
\* leaves self.obstacles rebound to the union with env.inner_obstacles
ExpandTheta ==
    /\ algo = "Theta"
    /\ pc = "loop"
    /\ OPEN # <<>>
    /\ \E node \in {Popped} :
           /\ ~AlreadyClosed(node)
           /\ ~IsGoal(node)
           /\ \E nbrs \in {GetNeighbor(node, 1)} :
              \E r \in {ThetaLoop(node, nbrs, 1, CLOSED, HeapPop(OPEN), FALSE)} :
                 /\ OPEN' = r.open
                 /\ obstacles' = IF r.called THEN UnionObstacles ELSE obstacles
           /\ CLOSED' = ClosedPut(CLOSED, node)
    /\ expansions' = expansions + 1
    /\ UNCHANGED <<algo, env_obstacles, inner_obstacles, start, goal,
                   pc, outcome, result, call, result1, los, jmp>>

\* line 83 / 97: OPEN is empty, plan() returns the not-found tuple
Exhausted ==
    /\ pc = "loop"
    /\ OPEN = <<>>
    /\ result' = NotFoundResult
    /\ pc' = "done"
    /\ outcome' = "exhausted"
    /\ UNCHANGED <<algo, env_obstacles, inner_obstacles, start, goal, obstacles,
                   OPEN, CLOSED, call, result1, los, jmp, expansions>>

\* plan() is called again on the same planner object: fresh OPEN and
\* CLOSED, everything stored on self is as the last call left it
Replan ==
    /\ pc = "done"
    /\ call < MaxCalls
    /\ call' = call + 1
    /\ result1' = IF call = 1 THEN result ELSE result1
    /\ OPEN' = <<StartNode>>
    /\ CLOSED' = <<>>
    /\ pc' = "loop"
    /\ outcome' = "none"
    /\ result' = NoResult
    /\ expansions' = 0
    /\ UNCHANGED <<algo, env_obstacles, inner_obstacles, start, goal, obstacles, los, jmp>>

Next ==
    \/ PopStale
    \/ PopGoal
    \/ ExpandJPS
    \/ ExpandTheta
    \/ Exhausted
    \/ Replan

Spec == Init /\ [][Next]_vars

\* a plan() call runs to completion: no step of it waits on anything
FairSpec == Spec /\ WF_vars(Next)

\* ---------------------------------------------------------------- lineOfSight alone
\* the coordinates lineOfSight is asked about: the lattice and the cells one
\* step outside it
LosPoints == ((-1)..XRange) \X ((-1)..YRange) \X ((-1)..ZRange)

\* the first coordinate is drawn from those within StartSpan of the origin
LosFrom ==
    {c \in LosPoints : c[1] <= StartSpan /\ c[2] <= StartSpan /\ c[3] <= StartSpan}

\* a Theta* planner on any environment, and any two such coordinates
InitLOS ==
    /\ algo = "Theta"
    /\ \E ei \in ObstacleChoices :
          /\ env_obstacles = Boundary \cup ei[1]
          /\ inner_obstacles = ei[2]
    /\ start \in {<<1, 1, 1>>}
    /\ goal \in {<<1, 1, 1>>}
    /\ obstacles = env_obstacles
    /\ OPEN = <<>>
    /\ CLOSED = <<>>
    /\ pc = "idle"
    /\ outcome = "none"
    /\ result = NoResult
    /\ call = 0
    /\ result1 = NoResult
    /\ expansions = 0
    /\ \E p \in LosFrom, q \in LosPoints :
          los = [p |-> p, q |-> q, asked |-> FALSE, pq |-> FALSE, qp |-> FALSE]
    /\ jmp = NoJump

\* lineOfSight(p, q) and then lineOfSight(q, p) are called
AskLOS ==
    /\ ~los.asked
    /\ los' = [los EXCEPT !.asked = TRUE,
                          !.pq = LineOfSight(los.p, los.q, UnionObstacles),
                          !.qp = LineOfSight(los.q, los.p, UnionObstacles)]
    /\ obstacles' = UnionObstacles
    /\ UNCHANGED <<algo, env_obstacles, inner_obstacles, start, goal,
                   OPEN, CLOSED, pc, outcome, result, call, result1, expansions, jmp>>

NextLOS == AskLOS

SpecLOS == InitLOS /\ [][NextLOS]_vars

\* ---------------------------------------------------------------- jump alone
\* the cells jump is called from: the cells of the lattice, walls included,
\* within StartSpan of the origin
JumpFrom ==
    {c \in Cells : c[1] <= StartSpan /\ c[2] <= StartSpan /\ c[3] <= StartSpan}

\* a JPS planner on any environment with any goal, and a node and a motion
InitJump ==
    /\ algo = "JPS"
    /\ \E e \in CellSets(MaxObstacles) : env_obstacles = Boundary \cup e
    /\ inner_obstacles = {}
    /\ start \in {<<1, 1, 1>>}
    /\ goal \in Interior
    /\ obstacles = env_obstacles
    /\ OPEN = <<>>
    /\ CLOSED = <<>>
    /\ pc = "idle"
    /\ outcome = "none"
    /\ result = NoResult
    /\ call = 0
    /\ result1 = NoResult
    /\ expansions = 0
    /\ los = [p |-> start, q |-> goal, asked |-> FALSE, pq |-> FALSE, qp |-> FALSE]
    /\ \E c \in JumpFrom, m \in MotionSet :
          jmp = [NoJump EXCEPT !.node = c, !.motion = m]

\* jump(node, motion) is called for a node at jmp.node with g = 0
AskJump ==
    /\ ~jmp.asked
    /\ \E r \in {JumpAt(Node(jmp.node, jmp.node, 0, 0), jmp.motion,
                         MotionCost(jmp.motion), 1)} :
          jmp' = [jmp EXCEPT !.asked = TRUE, !.pt = r]
    /\ UNCHANGED <<algo, env_obstacles, inner_obstacles, start, goal, obstacles,
                   OPEN, CLOSED, pc, outcome, result, call, result1, los,
                   expansions>>

NextJump == AskJump

SpecJump == InitJump /\ [][NextJump]_vars

\* ---------------------------------------------------------------- detectForceNeighbor alone
\* detectForceNeighbor(node, motion) is called for a node at jmp.node
AskForce ==
    /\ ~jmp.probed
    /\ jmp' = [jmp EXCEPT !.probed = TRUE,
                          !.forced = DetectForceNeighbor(jmp.node, jmp.motion)]
    /\ UNCHANGED <<algo, env_obstacles, inner_obstacles, start, goal, obstacles,
                   OPEN, CLOSED, pc, outcome, result, call, result1, los,
                   expansions>>

NextForce == AskForce

SpecForce == InitJump /\ [][NextForce]_vars

\* ================================================================ properties
\* the obstacle membership of the environment: walls, env.update()d cells
\* and env.inner_obstacles
EnvObstacles == env_obstacles \cup inner_obstacles

Positions(seq) == {seq[i].current : i \in 1..Len(seq)}

\* C1: within one run of plan() the CLOSED map has one entry per position,
\* and a step never replaces or removes an entry: CLOSED only grows, by one
\* entry at a time, the new entry is for a position not closed before, and
\* every step that generates successors closes such a new position (no
\* position is expanded twice).
C1_ClosedNeverReopened ==
    [][call' = call =>
         /\ Len(CLOSED') >= Len(CLOSED)
         /\ \A i \in 1..Len(CLOSED) : CLOSED'[i] = CLOSED[i]
         /\ \A i, j \in 1..Len(CLOSED') :
               CLOSED'[i].current = CLOSED'[j].current => i = j
         /\ (CLOSED' # CLOSED \/ expansions' # expansions) =>
               /\ Len(CLOSED') = Len(CLOSED) + 1
               /\ CLOSED'[Len(CLOSED')].current \notin Positions(CLOSED)]_vars

\* a position that is closed is on top of OPEN again, about to be popped
C1_Witness ==
    /\ pc = "loop"
    /\ Len(CLOSED) >= 2
    /\ OPEN # <<>>
    /\ Popped.current \in Positions(CLOSED)

InvalidInput == start \in EnvObstacles \/ goal \in EnvObstacles

\* C4 as claimed: with start or goal on an obstacle cell the search loop is
\* never entered: nothing is popped from OPEN and nothing is closed
C4_FailsFast ==
    InvalidInput => /\ OPEN = <<StartNode>>
                    /\ CLOSED = <<>>
                    /\ expansions = 0
                    /\ outcome = "none"

\* C5: with start = goal on a free cell plan() returns cost 0, the path
\* [start] and the start node as the only expanded node, and has pushed no
\* successor.
C5_StartIsGoal ==
    (pc = "done" /\ start = goal /\ start \notin EnvObstacles) =>
        /\ result = [cost |-> [type |-> "number", val |-> 0],
                     path |-> <<start>>,
                     expanded |-> <<[current |-> start, parent |-> start,
                                     g |-> 0, h |-> 0]>>]
        /\ OPEN = <<>>
        /\ expansions = 0

C5_Witness ==
    pc = "done" /\ start = goal /\ start \notin EnvObstacles /\ outcome = "found"

\* C6 as claimed: the second call of plan() on the same planner object
\* returns what the first call returned
C6_SecondCallSame ==
    (pc = "done" /\ call = 2) => result = result1

\* C7: a successful ThetaStar.plan returns a path from start to goal whose
\* every waypoint after the first is a closed node with the waypoint before
\* it as parent; and every closed node but start has its parent closed.
C7_PathReachesStart ==
    algo = "Theta" =>
        /\ \A i \in 1..Len(CLOSED) :
              \/ CLOSED[i].current = start
              \/ CLOSED[i].parent \in Positions(CLOSED)
        /\ outcome = "found" =>
              /\ result.path[1] = start
              /\ result.path[Len(result.path)] = goal
              /\ \A i \in 1..(Len(result.path) - 1) :
                    \E k \in 1..Len(CLOSED) :
                        /\ CLOSED[k].current = result.path[i + 1]
                        /\ CLOSED[k].parent = result.path[i]

\* a Theta* path with an intermediate waypoint
C7_Witness == algo = "Theta" /\ outcome = "found" /\ Len(result.path) >= 3

\* cell c moved k times by motion m
Steps(c, m, k) == <<c[1] + k * m[1], c[2] + k * m[2], c[3] + k * m[3]>>

C9_PathLineOfSight ==
    (algo = "Theta" /\ outcome = "found") =>
        \A i \in 1..(Len(result.path) - 1) :
            LineOfSight(result.path[i], result.path[i + 1], EnvObstacles)

\* C10 as claimed: lineOfSight(p, q) = lineOfSight(q, p)
C10_Symmetric == los.asked => los.pq = los.qp

Max3(a, b, c) ==
    IF a >= b /\ a >= c THEN a ELSE IF b >= c THEN b ELSE c

\* C11: lineOfSight(p, q) is False when p or q is an obstacle or out of
\* bounds.  Otherwise the answer is True exactly when no cell its traversal
\* steps onto is an obstacle, and lineOfSight(p, p) is True for a free
\* in-bounds p.  The traversal (the loops of lines 185-228, for any two
\* coordinates) makes max(|dx|, |dy|, |dz|) steps, each advances every axis
\* of that largest extent by one cell towards q, and the last cell stepped
\* onto is q.
C11_LineOfSight ==
    los.asked =>
        LET p == los.p
            q == los.q
            n == Max3(Abs(q[1] - p[1]), Abs(q[2] - p[2]), Abs(q[3] - p[3]))
        IN  \E tr \in {LosTrace(p, q)} :
               /\ Len(tr) = n
               /\ n > 0 => tr[n] = q
               /\ \A i \in 1..n : \A a \in 1..3 :
                     Abs(q[a] - p[a]) = n =>
                         tr[i][a] = p[a] + i * (IF q[a] > p[a] THEN 1 ELSE -1)
               /\ IF \/ p \in EnvObstacles \/ q \in EnvObstacles
                     \/ ~InBounds(p) \/ ~InBounds(q)
                  THEN ~los.pq
                  ELSE /\ los.pq = (\A i \in 1..n : tr[i] \notin EnvObstacles)
                       /\ p = q => los.pq

\* a line of sight along a slanted line past an inner obstacle: a minor
\* axis advances on the way
C11_Witness ==
    /\ los.asked
    /\ los.pq
    /\ Abs(los.q[1] - los.p[1]) >= 2
    /\ Abs(los.q[2] - los.p[2]) = 1
    /\ inner_obstacles # {}

\* C12 as claimed: on a grid without interior obstacles JPS.plan reports the
\* cost A* reports, and expands no more distinct positions than A* does
C12_JPSMatchesAStar ==
    (algo = "JPS" /\ pc = "done" /\ EnvObstacles = Boundary) =>
        \E a \in {AStarPlan} :
            /\ result.cost = a.cost
            /\ Cardinality(Positions(result.expanded))
                  <= Cardinality(Positions(a.expanded))

\* C13 as claimed: no step of a running plan() call changes the obstacle
\* set the planner tests membership against
C13_ObstaclesUnchanged ==
    [][pc = "loop" => obstacles' = obstacles]_vars

\* C14: on success the expanded result is the CLOSED map in the order the
\* nodes were closed: during the run every change of CLOSED appends one node,
\* and the returned list is CLOSED, holds each position once, starts with
\* the start node and ends with the goal node.
C14_ExpandedInClosureOrder ==
    /\ [][call' = call /\ CLOSED' # CLOSED =>
             \E n \in {CLOSED'[Len(CLOSED')]} :
                 /\ CLOSED' = Append(CLOSED, n)
                 /\ n.current \notin Positions(CLOSED)]_vars
    /\ [](outcome = "found" =>
             /\ result.expanded = CLOSED
             /\ \A i, j \in 1..Len(result.expanded) :
                   result.expanded[i].current = result.expanded[j].current => i = j
             /\ result.expanded[1] = StartNode
             /\ result.expanded[Len(result.expanded)].current = goal)

\* a successful run that closed other nodes between start and goal
C14_Witness ==
    /\ outcome = "found"
    /\ start # goal
    /\ Len(result.expanded) >= 4
    /\ result.expanded[Len(result.expanded)].current = goal

\* the cells one valid motion away from c: the motion does not collide
\* (spec 4.3) and ends on a cell that is no obstacle of the environment
ValidSteps(c) ==
    {AddPos(c, m) : m \in {mm \in MotionSet : ~IsCollision(c, mm)}} \ EnvObstacles

\* the cells that sequences of valid motions lead to from the cells of S
RECURSIVE ReachableFrom(_)
ReachableFrom(S) ==
    Let(S \cup UNION {ValidSteps(c) : c \in S}, LAMBDA T :
        IF T = S THEN S ELSE ReachableFrom(T))

\* C15 as claimed: when a sequence of valid motions through non-obstacle
\* cells leads from start to goal, JPS.plan does not return not-found
C15_FindsReachableGoal ==
    (algo = "JPS" /\ outcome = "exhausted" /\ start \notin EnvObstacles) =>
        goal \notin ReachableFrom({start})

\* C16: a step of a run that pops a node whose position is closed removes
\* that entry from OPEN and changes nothing else; and whatever a step pushes
\* onto OPEN is at a position that was not closed when the step began.
C16_StalePopAndClosedFilter ==
    [][(call' = call /\ pc = "loop" /\ OPEN # <<>>) =>
          /\ \E k \in 1..Len(OPEN) :
                \A i \in 1..(Len(OPEN) - 1) :
                    OPEN'[i] = IF i < k THEN OPEN[i] ELSE OPEN[i + 1]
          /\ \A i \in Len(OPEN)..Len(OPEN') :
                OPEN'[i].current \notin Positions(CLOSED)
          /\ Popped.current \in Positions(CLOSED) =>
                /\ Len(OPEN') = Len(OPEN) - 1
                /\ UNCHANGED <<CLOSED, obstacles, expansions, pc, outcome, result>>]_vars

\* JPS is about to pop a closed position while an open one waits in OPEN
C16_Witness ==
    /\ algo = "JPS"
    /\ pc = "loop"
    /\ Len(OPEN) >= 2
    /\ Popped.current \in Positions(CLOSED)
    /\ \E i \in 1..Len(OPEN) : OPEN[i].current \notin Positions(CLOSED)

\* the cell k steps of motion m away from cell c
StepsAway(c, m, k) == <<c[1] + k * m[1], c[2] + k * m[2], c[3] + k * m[3]>>

\* the run lengths k for which pt = c + k * m and every cell of the run,
\* pt included, is inside the lattice and no obstacle
FreeRuns(c, m, pt) ==
    {k \in 1..MaxDelta :
        /\ pt = StepsAway(c, m, k)
        /\ \A i \in 1..k : /\ InBounds(StepsAway(c, m, i))
                           /\ StepsAway(c, m, i) \notin obstacles}

\* C17: for every in-bounds node and each of the 26 directions, jump
\* returns no jump point when the first stepped cell is an obstacle or out of
\* bounds, and a jump point it returns is an in-bounds non-obstacle cell
\* node + k * motion, k >= 1, with every cell of the run free of obstacles.
C17_JumpStopsAtObstacleOrEdge ==
    jmp.asked =>
        /\ (HitObstacle(AddPos(jmp.node, jmp.motion)) \/ ~InBounds(AddPos(jmp.node, jmp.motion)))
               => jmp.pt = None
        /\ jmp.pt # None => FreeRuns(jmp.node, jmp.motion, jmp.pt.current) # {}

\* the jump frame that stepped onto cell c with motion m reaches line 147
\* and calls jump again with the same motion: c is no obstacle and not the
\* goal, no sub-direction jump returned a point, no neighbour is forced
Continues(c, m) ==
    /\ ~HitObstacle(c)
    /\ c # goal
    /\ SubFound(Node(c, c, 0, 0), SubDirections(m), 1, 1) = "none"
    /\ ~DetectForceNeighbor(c, m)

\* the number of jump frames along motion m that a call from cell c stacks:
\* the k-th frame steps onto the k-th cell; counted up to MaxDelta + 1
RECURSIVE DepthAlong(_, _, _)
DepthAlong(c, m, k) ==
    IF k > MaxDelta THEN k
    ELSE IF Continues(StepsAway(c, m, k), m) THEN DepthAlong(c, m, k + 1)
    ELSE k

\* the largest grid extent among the axes motion m moves along
Extent(m) ==
    Max3(IF m[1] # 0 THEN XRange ELSE 0,
         IF m[2] # 0 THEN YRange ELSE 0,
         IF m[3] # 0 THEN ZRange ELSE 0)

\* C18: on a grid with walls on its boundary, jump called for an in-bounds
\* node and any of the 26 directions returns (it does not recurse without
\* end), nested sub-direction jumps included, and stacks at most as many
\* frames along the direction as the grid extends in it.
C18_JumpTerminates ==
    jmp.asked =>
        /\ jmp.pt # Raised
        /\ DepthAlong(jmp.node, jmp.motion, 1) <= Extent(jmp.motion)

\* the successor at cell c of the popped node, as path 1 builds it (lines
\* 79-81) and as updateVertex must leave it according to the claim: bound
\* to the grandparent gp exactly when lineOfSight(successor, gp) holds and
\* gp.g + dist is at most the path 1 cost
Expected19(node, c, gp, obs) ==
    IF /\ gp # None
       /\ LineOfSight(c, gp.current, obs)
       /\ gp.g + Dist(c, gp.current) <= node.g + Dist(node.current, c)
    THEN [parent |-> gp.current, g |-> gp.g + Dist(c, gp.current)]
    ELSE [parent |-> node.current, g |-> node.g + Dist(node.current, c)]

\* C19: in every expansion of Theta*, each pushed successor has the
\* grandparent as parent and g = grandparent.g + dist(successor, grandparent)
\* exactly when a line of sight exists from it to the grandparent and that
\* value is not greater than its path 1 cost, and otherwise keeps the popped
\* node as parent with the path 1 cost; its g is never above the path 1 cost,
\* and it satisfies g = g(parent) + dist(node, parent) for its parent's
\* closed entry.
C19_UpdateVertex ==
    [][(algo = "Theta" /\ pc = "loop" /\ pc' = "loop" /\ OPEN # <<>>
          /\ Len(CLOSED') = Len(CLOSED) + 1)
       => \A k \in Len(OPEN)..Len(OPEN') :
              /\ [parent |-> OPEN'[k].parent, g |-> OPEN'[k].g]
                     = Expected19(Popped, OPEN'[k].current,
                                  ClosedGet(CLOSED, Popped.parent),
                                  obstacles \cup inner_obstacles)
              /\ OPEN'[k].g <= Popped.g + Dist(Popped.current, OPEN'[k].current)
              /\ InClosed(CLOSED', OPEN'[k].parent)
              /\ OPEN'[k].g = ClosedGet(CLOSED', OPEN'[k].parent).g
                                  + Dist(OPEN'[k].current, OPEN'[k].parent)]_vars

\* an OPEN list of Theta* holding a successor that updateVertex bound to a
\* grandparent two or more cells away, and one that it left with its parent
C19_Witness ==
    /\ algo = "Theta"
    /\ pc = "loop"
    /\ \E i \in 1..Len(OPEN) : D2(OPEN[i].current, OPEN[i].parent) > 3
    /\ \E j \in 1..Len(OPEN) :
          /\ OPEN[j].parent # start
          /\ D2(OPEN[j].current, OPEN[j].parent) <= 3
          /\ InClosed(CLOSED, ClosedGet(CLOSED, OPEN[j].parent).parent)

\* C20: the forced-neighbour test as the claim states it.  For an axis
\* motion: some cell one step beside c along a perpendicular axis is an
\* obstacle and the cell one motion further is not.  For a diagonal motion:
\* for one of the axes a it moves along, the cell one step back along a is an
\* obstacle and the cell reached from there by the rest of the motion is not.
ForcedAsStated(c, m) ==
    IF Cardinality(Moving(m)) = 1
    THEN \E a \in (1..3) \ Moving(m), s \in {-1, 1} :
             /\ AddPos(c, Unit(a, s)) \in obstacles
             /\ AddPos(AddPos(c, Unit(a, s)), m) \notin obstacles
    ELSE \E a \in Moving(m) :
             /\ AddPos(c, Unit(a, -m[a])) \in obstacles
             /\ AddPos(AddPos(c, Unit(a, -m[a])), [m EXCEPT ![a] = 0]) \notin obstacles

\* C20: detectForceNeighbor answers True exactly when the stated test
\* matches: for an axis motion on one of the four side cells, for a 2-axis
\* or 3-axis diagonal on one of its two or three partial-axis combinations,
\* and False when none matches.
C20_ForcedNeighbor ==
    jmp.probed => (jmp.forced <=> ForcedAsStated(jmp.node, jmp.motion))

\* detectForceNeighbor has answered True for an axis motion at a free cell
C20_Witness ==
    /\ jmp.probed
    /\ jmp.forced
    /\ Cardinality(Moving(jmp.motion)) = 1
    /\ jmp.node \notin obstacles

====
